---- MODULE Spec2Model ----
(***************************************************************************)
(* Model of src/app.js: user registration, login, logout and owner-scoped  *)
(* CRUD over posts, with a JWT kept in the server-side session.            *)
(*                                                                         *)
(* Two specifications are given.  Spec runs every handler to completion    *)
(* before the next one starts.  SpecConc splits POST /register at its two  *)
(* awaits (User.findOne, newUser.save) so that concurrently handled        *)
(* registrations interleave the way the node event loop allows.            *)
(*                                                                         *)
(* Modelling choices: ObjectIds are small integers (a user's _id is its    *)
(* index in users); the document store and jwt.sign never fail, so the 500 *)
(* branches of the handlers are not taken; request bodies carry strings,   *)
(* except text of POST /post, which also ranges over absent and non-string *)
(* values because the handler tests for them; a guarded handler's guard    *)
(* and its single store call are one step.                                 *)
(***************************************************************************)
EXTENDS Integers, Sequences, FiniteSets

\* ---------------------------------------------------------------- bounds
MaxUsers == 2       \* cap on stored user documents
MaxPosts == 2       \* cap on post documents ever created
MaxTime == 1        \* last clock tick explored
MaxInFlight == 2    \* cap on registrations between findOne and save

\* expiresIn: "1h"; one clock tick is one hour
ExpiresIn == 1

\* ---------------------------------------------------------------- inputs
Sessions == {"s1", "s2"}

\* request bodies of POST /register
RegBodies ==
  { [username |-> "alice", email |-> "a@x.com", password |-> "pw"],
    [username |-> "alice", email |-> "b@x.com", password |-> "pw"],
    [username |-> "bob",   email |-> "a@x.com", password |-> "pw2"] }

Usernames == {"alice", "bob"}
Passwords == {"pw", "pw2"}

\* req.body.text as a JavaScript value: its typeof and, for a string, its content
CreateTexts ==
  { [kind |-> "undefined", str |-> ""],
    [kind |-> "string",    str |-> ""],
    [kind |-> "number",    str |-> "7"],
    [kind |-> "string",    str |-> "hi"] }

UpdateTexts ==
  { [kind |-> "string", str |-> ""],
    [kind |-> "string", str |-> "hi"] }

PostIds == 1..MaxPosts

\* ---------------------------------------------------------------- state
VARIABLES
  users,      \* User collection: sequence of documents, _id = index
  posts,      \* Post collection: set of documents [id, userId, text]
  nextPostId, \* next fresh Post _id
  sessTok,    \* req.session.token per session: <<>> or <<token>>
  now,        \* clock, in ticks
  inflight,   \* registrations that passed findOne and await save
  resp,       \* the response on its way to the client, NoResponse if none
  \* history variables, written by the handlers, read only by the properties
  registered, \* <<username, password>> of every registration that succeeded
  lastLogin,  \* per session: <<[at, username]>>, the time of and the username
              \* given to the last successful login/registration not followed
              \* by a logout, else <<>>
  createdBy,  \* per created post id: req.user.userId of the creating request
  deleted     \* ids of posts a Delete request removed

vars == <<users, posts, nextPostId, sessTok, now, inflight, resp,
          registered, lastLogin, createdBy, deleted>>

hist == <<registered, lastLogin, createdBy, deleted>>

\* ---------------------------------------------------------------- helpers
Response(route, status, trips, body) ==
  [route |-> route, status |-> status, trips |-> trips, body |-> body]

NoResponse == Response("none", 0, 0, {})

\* jwt.sign({userId, username}, SECRET_KEY, {expiresIn: "1h"}) at time t
SignToken(userId, username, t) ==
  [userId |-> userId, username |-> username, exp |-> t + ExpiresIn]

\* faulty variant: the expiry test off by one, a token is still accepted at exp
VerifyInclusive(token, t) == t <= token.exp

\* jwt.verify(token, SECRET_KEY) at time t: throws once t has reached exp
Verify(token, t) == t < token.exp

\* the guard's test: a token is in the session and it verifies
GuardPasses(s) == sessTok[s] # <<>> /\ Verify(sessTok[s][1], now)

\* req.user.userId after the guard let the request through
ReqUserId(s) == sessTok[s][1].userId

\* faulty variant: the duplicate lookup looks at the username only
ExistingUserByName(us, username, email) ==
  { i \in DOMAIN us : us[i].username = username }

\* User.findOne({ $or: [{ username }, { email }] })
ExistingUser(us, username, email) ==
  { i \in DOMAIN us : us[i].username = username \/ us[i].email = email }

\* faulty variant: the login lookup compares the password with the email field
FindLoginByEmail(us, username, password) ==
  { i \in DOMAIN us : us[i].username = username /\ us[i].email = password }

\* faulty variant: the login lookup ignores the password
FindLoginAnyPassword(us, username, password) ==
  { i \in DOMAIN us : us[i].username = username }

\* User.findOne({ username, password })
FindLogin(us, username, password) ==
  { i \in DOMAIN us : us[i].username = username /\ us[i].password = password }

\* !text || typeof text !== "string"
InvalidText(text) ==
  \/ text.kind = "undefined"
  \/ (text.kind = "string" /\ text.str = "")
  \/ text.kind # "string"

\* faulty variant: the filter leaves out the owner
OwnedMatchAnyOwner(ps, postId, userId) ==
  { p \in ps : p.id = postId }

\* filter { _id: postId, userId: req.user.userId }
OwnedMatch(ps, postId, userId) ==
  { p \in ps : p.id = postId /\ p.userId = userId }

\* faulty variant: the listing leaves out the owner filter
FindPostsAll(ps, userId) == ps

\* Post.find({ userId: req.user.userId })
FindPosts(ps, userId) == { p \in ps : p.userId = userId }

\* ---------------------------------------------------------------- Init
Init ==
  /\ users = <<>>
  /\ posts = {}
  /\ nextPostId = 1
  /\ sessTok = [s \in Sessions |-> <<>>]
  /\ now = 0
  /\ inflight = <<>>
  /\ resp = NoResponse
  /\ registered = {}
  /\ lastLogin = [s \in Sessions |-> <<>>]
  /\ createdBy = <<>>
  /\ deleted = {}

\* ---------------------------------------------------------------- guarded routes
\* POST /post behind authenticateJWT
CreatePost(s, text) ==
  /\ resp = NoResponse
  /\ IF ~GuardPasses(s)
       THEN /\ resp' = Response("create", 401, 0, {})
            /\ UNCHANGED <<posts, nextPostId, createdBy>>
       ELSE IF InvalidText(text)
         THEN /\ resp' = Response("create", 400, 0, {})
              /\ UNCHANGED <<posts, nextPostId, createdBy>>
         ELSE /\ nextPostId <= MaxPosts
              /\ LET newPost == [id |-> nextPostId, userId |-> ReqUserId(s),
                                 text |-> text.str]
                 IN /\ posts' = posts \cup {newPost}
                    /\ resp' = Response("create", 201, 1, {newPost})
              /\ nextPostId' = nextPostId + 1
              /\ createdBy' = Append(createdBy, ReqUserId(s))
  /\ UNCHANGED <<users, sessTok, now, inflight, registered, lastLogin, deleted>>

\* GET /posts behind authenticateJWT
ListPosts(s) ==
  /\ resp = NoResponse
  /\ IF ~GuardPasses(s)
       THEN resp' = Response("list", 401, 0, {})
       ELSE resp' = Response("list", 200, 1, FindPosts(posts, ReqUserId(s)))
  /\ UNCHANGED <<users, posts, nextPostId, sessTok, now, inflight, hist>>

\* faulty variant: Update reads the post with findOne and writes it back with save
UpdatePostFindThenSave(s, postId, text) ==
  /\ resp = NoResponse
  /\ IF ~GuardPasses(s)
       THEN /\ resp' = Response("update", 401, 0, {})
            /\ UNCHANGED posts
       ELSE LET found == OwnedMatch(posts, postId, ReqUserId(s))
            IN IF found = {}
                 THEN /\ resp' = Response("update", 404, 1, {})
                      /\ UNCHANGED posts
                 ELSE LET updated == { [p EXCEPT !.text = text.str] : p \in found }
                      IN /\ posts' = (posts \ found) \cup updated
                         /\ resp' = Response("update", 200, 2, updated)
  /\ UNCHANGED <<users, nextPostId, sessTok, now, inflight, hist>>

\* PUT /posts/:postId behind authenticateJWT
UpdatePost(s, postId, text) ==
  /\ resp = NoResponse
  /\ IF ~GuardPasses(s)
       THEN /\ resp' = Response("update", 401, 0, {})
            /\ UNCHANGED posts
       ELSE LET found == OwnedMatch(posts, postId, ReqUserId(s))
            IN IF found = {}
                 THEN /\ resp' = Response("update", 404, 1, {})
                      /\ UNCHANGED posts
                 ELSE LET updated == { [p EXCEPT !.text = text.str] : p \in found }
                      IN /\ posts' = (posts \ found) \cup updated
                         /\ resp' = Response("update", 200, 1, updated)
  /\ UNCHANGED <<users, nextPostId, sessTok, now, inflight, hist>>

\* DELETE /posts/:postId behind authenticateJWT
DeletePost(s, postId) ==
  /\ resp = NoResponse
  /\ IF ~GuardPasses(s)
       THEN /\ resp' = Response("delete", 401, 0, {})
            /\ UNCHANGED <<posts, deleted>>
       ELSE LET found == OwnedMatch(posts, postId, ReqUserId(s))
            IN IF found = {}
                 THEN /\ resp' = Response("delete", 404, 1, {})
                      /\ UNCHANGED <<posts, deleted>>
                 ELSE /\ posts' = posts \ found
                      /\ deleted' = deleted \cup {postId}
                      /\ resp' = Response("delete", 200, 1, found)
  /\ UNCHANGED <<users, nextPostId, sessTok, now, inflight,
                 registered, lastLogin, createdBy>>

\* faulty variant: /index registered without requireAuth
IndexUnguarded(s) ==
  /\ resp = NoResponse
  /\ resp' = Response("index", 200, 0, {})
  /\ UNCHANGED <<users, posts, nextPostId, sessTok, now, inflight, hist>>

\* GET /index behind requireAuth: 302 is the redirect to /login
Index(s) ==
  /\ resp = NoResponse
  /\ IF ~GuardPasses(s)
       THEN resp' = Response("index", 302, 0, {})
       ELSE resp' = Response("index", 200, 0, {})
  /\ UNCHANGED <<users, posts, nextPostId, sessTok, now, inflight, hist>>

\* ---------------------------------------------------------------- register, login, logout
\* newUser.save(), jwt.sign, req.session.token = token, redirect to /index
SaveAndSignIn(s, body, trips) ==
  /\ users' = Append(users, body)
  /\ sessTok' = [sessTok EXCEPT ![s] = <<SignToken(Len(users) + 1, body.username, now)>>]
  /\ resp' = Response("register", 302, trips + 1, {})
  /\ registered' = registered \cup {<<body.username, body.password>>}
  /\ lastLogin' = [lastLogin EXCEPT ![s] = <<[at |-> now, username |-> body.username]>>]

\* POST /register, handled without interleaving
Register(s, body) ==
  /\ resp = NoResponse
  /\ IF ExistingUser(users, body.username, body.email) # {}
       THEN /\ resp' = Response("register", 400, 1, {})
            /\ UNCHANGED <<users, sessTok, registered, lastLogin>>
       ELSE /\ Len(users) < MaxUsers
            /\ SaveAndSignIn(s, body, 1)
  /\ UNCHANGED <<posts, nextPostId, now, inflight, createdBy, deleted>>

\* POST /register up to the await on User.findOne
RegisterLookup(s, body) ==
  /\ IF ExistingUser(users, body.username, body.email) # {}
       THEN /\ resp = NoResponse
            /\ resp' = Response("register", 400, 1, {})
            /\ UNCHANGED inflight
       ELSE /\ Len(users) + Len(inflight) < MaxUsers
            /\ Len(inflight) < MaxInFlight
            /\ inflight' = Append(inflight, [sess |-> s, body |-> body, trips |-> 1])
            /\ UNCHANGED resp
  /\ UNCHANGED <<users, posts, nextPostId, sessTok, now, hist>>

\* POST /register from the await on newUser.save to the response
RegisterSave(k) ==
  /\ resp = NoResponse
  /\ k \in DOMAIN inflight
  /\ SaveAndSignIn(inflight[k].sess, inflight[k].body, inflight[k].trips)
  /\ inflight' = [i \in 1..(Len(inflight) - 1) |->
                    IF i < k THEN inflight[i] ELSE inflight[i + 1]]
  /\ UNCHANGED <<posts, nextPostId, now, createdBy, deleted>>

\* POST /login
Login(s, username, password) ==
  /\ resp = NoResponse
  /\ LET user == FindLogin(users, username, password)
     IN IF user = {}
          THEN /\ resp' = Response("login", 401, 1, {})
               /\ UNCHANGED <<sessTok, lastLogin>>
          ELSE \* findOne returns the first match in _id order
               LET u == CHOOSE i \in user : \A j \in user : i <= j
               IN /\ sessTok' = [sessTok EXCEPT
                                   ![s] = <<SignToken(u, users[u].username, now)>>]
                  /\ resp' = Response("login", 302, 1, {})
                  /\ lastLogin' = [lastLogin EXCEPT
                                     ![s] = <<[at |-> now, username |-> username]>>]
  /\ UNCHANGED <<users, posts, nextPostId, now, inflight, registered, createdBy, deleted>>

\* GET /logout: req.session.destroy, then redirect to /login
Logout(s) ==
  /\ resp = NoResponse
  /\ sessTok' = [sessTok EXCEPT ![s] = <<>>]
  /\ lastLogin' = [lastLogin EXCEPT ![s] = <<>>]
  /\ resp' = Response("logout", 302, 0, {})
  /\ UNCHANGED <<users, posts, nextPostId, now, inflight, registered,
                 createdBy, deleted>>

\* the transport hands the response to the client
Deliver ==
  /\ resp # NoResponse
  /\ resp' = NoResponse
  /\ UNCHANGED <<users, posts, nextPostId, sessTok, now, inflight, hist>>

\* the clock advances
Tick ==
  /\ now < MaxTime
  /\ now' = now + 1
  /\ UNCHANGED <<users, posts, nextPostId, sessTok, inflight, resp, hist>>

\* ---------------------------------------------------------------- specifications
DoCreatePost == \E s \in Sessions, text \in CreateTexts : CreatePost(s, text)
DoListPosts == \E s \in Sessions : ListPosts(s)
DoUpdatePost == \E s \in Sessions, id \in PostIds, text \in UpdateTexts : UpdatePost(s, id, text)
DoDeletePost == \E s \in Sessions, id \in PostIds : DeletePost(s, id)
DoIndex == \E s \in Sessions : Index(s)
DoRegister == \E s \in Sessions, body \in RegBodies : Register(s, body)
DoRegisterLookup == \E s \in Sessions, body \in RegBodies : RegisterLookup(s, body)
DoRegisterSave == \E k \in 1..MaxInFlight : RegisterSave(k)
DoLogin == \E s \in Sessions, u \in Usernames, p \in Passwords : Login(s, u, p)
DoLogout == \E s \in Sessions : Logout(s)

Next ==
  \/ DoCreatePost
  \/ DoListPosts
  \/ DoUpdatePost
  \/ DoDeletePost
  \/ DoIndex
  \/ DoRegister
  \/ DoLogin
  \/ DoLogout
  \/ Deliver
  \/ Tick

Spec == Init /\ [][Next]_vars

NextConc ==
  \/ DoRegisterLookup
  \/ DoRegisterSave
  \/ DoLogin
  \/ DoLogout
  \/ DoIndex
  \/ Deliver

SpecConc == Init /\ [][NextConc]_vars

\* ---------------------------------------------------------------- vocabulary of the properties
\* a request to one of the five guarded routes in session s
GuardedRequest(s) ==
  \/ \E text \in CreateTexts : CreatePost(s, text)
  \/ ListPosts(s)
  \/ \E id \in PostIds, text \in UpdateTexts : UpdatePost(s, id, text)
  \/ \E id \in PostIds : DeletePost(s, id)
  \/ Index(s)

\* the guard's refusal: 401 on the post endpoints, the redirect on /index
Rejected(r) ==
  \/ r.route \in {"create", "list", "update", "delete"} /\ r.status = 401
  \/ r.route = "index" /\ r.status = 302

\* session s holds a credential issued less than one hour ago, no logout since
FreshLogin(s) ==
  lastLogin[s] # <<>> /\ now - lastLogin[s][1].at < ExpiresIn

\* ---------------------------------------------------------------- C1
\* C1: Update and Delete on the id of a stored post whose owner is not the
\* authenticated caller answer 404 and leave the post collection as it was.
C1_ForeignPostUntouched ==
  [][\A s \in Sessions, id \in PostIds :
       ( /\ FreshLogin(s)
         /\ \E p \in posts : p.id = id /\ p.userId # sessTok[s][1].userId
         /\ \/ \E text \in UpdateTexts : UpdatePost(s, id, text)
            \/ DeletePost(s, id) )
       => /\ resp'.status = 404
          /\ posts' = posts]_vars

\* a 404 to Update while every post id is stored: the caller was not the owner
C1_Witness ==
  /\ resp.route = "update"
  /\ resp.status = 404
  /\ { p.id : p \in posts } = PostIds

\* ---------------------------------------------------------------- C2
\* C2: List for an authenticated user returns exactly the posts that user
\* created and nobody deleted, and no post owned by another user.
C2_ListIsOwnLivePosts ==
  [][\A s \in Sessions :
       (FreshLogin(s) /\ ListPosts(s))
       => LET u == sessTok[s][1].userId
          IN /\ resp'.status = 200
             /\ { p.id : p \in resp'.body }
                  = { i \in DOMAIN createdBy : createdBy[i] = u /\ i \notin deleted }
             /\ \A p \in resp'.body : p.userId = u /\ p \in posts]_vars

\* a non-empty listing while another user's post is stored
C2_Witness ==
  /\ resp.route = "list"
  /\ resp.body # {}
  /\ \E p \in posts, q \in resp.body : p.userId # q.userId

\* ---------------------------------------------------------------- C3
\* C3: in a session without a credential every guarded request is refused
\* (401, or the redirect for /index), no store call is made, and the stored
\* posts and users stay as they were.
C3_NoCredentialRefused ==
  [][\A s \in Sessions :
       (sessTok[s] = <<>> /\ GuardedRequest(s))
       => /\ Rejected(resp')
          /\ resp'.trips = 0
          /\ posts' = posts
          /\ users' = users]_vars

\* a refusal on /index while no session holds a credential and posts exist
C3_Witness ==
  /\ resp.route = "index"
  /\ resp.status = 302
  /\ \A s \in Sessions : sessTok[s] = <<>>
  /\ posts # {}

\* ---------------------------------------------------------------- C4
\* C4: a registration whose username and email are both new succeeds, and
\* every later login with a registered username and password succeeds.
C4_RegisterThenLogin ==
  [][/\ \A s \in Sessions, body \in RegBodies :
          ( /\ Register(s, body)
            /\ \A i \in DOMAIN users : /\ users[i].username # body.username
                                       /\ users[i].email # body.email )
          => resp'.route = "register" /\ resp'.status = 302
     /\ \A s \in Sessions, u \in Usernames, p \in Passwords :
          (Login(s, u, p) /\ <<u, p>> \in registered)
          => resp'.route = "login" /\ resp'.status = 302]_vars

\* a successful login of the first registered user after a second registration
\* and a logout of the session
C4_Witness ==
  /\ resp.route = "login"
  /\ resp.status = 302
  /\ Len(users) = 2
  /\ \E s \in Sessions :
       /\ sessTok[s] # <<>>
       /\ sessTok[s][1].userId = 1
       /\ lastLogin[s][1].at > 0

\* ---------------------------------------------------------------- C5
\* C5: a registration whose username or email a stored user already has is
\* answered 400, adds no user and leaves every session's credential as it was.
C5_ConflictChangesNothing ==
  [][\A s \in Sessions, body \in RegBodies :
       ( /\ Register(s, body)
         /\ \E i \in DOMAIN users : \/ users[i].username = body.username
                                    \/ users[i].email = body.email )
       => /\ resp'.route = "register"
          /\ resp'.status = 400
          /\ users' = users
          /\ sessTok' = sessTok]_vars

\* a 400 to Register while some session is signed in
C5_Witness ==
  /\ resp.route = "register"
  /\ resp.status = 400
  /\ \E s \in Sessions : sessTok[s] # <<>>

\* ---------------------------------------------------------------- C6
\* C6: a guarded request is let through exactly when its session's last
\* successful login or registration is less than one hour old and no logout
\* followed it, and a guarded request never changes the stored credential.
C6_CredentialLifetime ==
  [][\A s \in Sessions :
       GuardedRequest(s)
       => /\ (~Rejected(resp')) <=> FreshLogin(s)
          /\ sessTok' = sessTok]_vars

\* a refusal while every session is signed in with a credential one hour old
C6_Witness ==
  /\ Rejected(resp)
  /\ \A s \in Sessions : lastLogin[s] # <<>> /\ now - lastLogin[s][1].at >= ExpiresIn

\* ---------------------------------------------------------------- C7
\* C7: Login succeeds only on a stored user with the given username and
\* password; the identity the guard attaches is that of the session's last
\* successful Login/Register; a Login answered 401 leaves the credential alone.
C7_LoginOverwritesCredential ==
  /\ [](\A s \in Sessions :
          GuardPasses(s)
          => /\ lastLogin[s] # <<>>
             /\ sessTok[s][1].username = lastLogin[s][1].username
             /\ sessTok[s][1].userId \in DOMAIN users
             /\ users[sessTok[s][1].userId].username = lastLogin[s][1].username)
  /\ [][\A s \in Sessions, u \in Usernames, p \in Passwords :
          Login(s, u, p)
          => /\ resp'.status = 302
                => \E i \in DOMAIN users : users[i].username = u /\ users[i].password = p
             /\ resp'.status = 401 => sessTok' = sessTok
             /\ resp'.status \in {302, 401}]_vars

\* a Login answered 401 in a state where a session is signed in as the second user
C7_Witness ==
  /\ resp.route = "login"
  /\ resp.status = 401
  /\ \E s \in Sessions : GuardPasses(s) /\ sessTok[s][1].userId = 2

\* ---------------------------------------------------------------- C8
\* C8: no two stored users share a username and no two share an email, also
\* when concurrently handled registrations interleave findOne and save.
C8_UsersUnique ==
  \A i, j \in DOMAIN users :
    i # j => /\ users[i].username # users[j].username
             /\ users[i].email # users[j].email

\* ---------------------------------------------------------------- C9
\* C9 as stated: every handler makes at most one store round trip.
C9_AtMostOneRoundTrip == resp.trips <= 1

\* C9 as amended: every handler but Register makes at most one store round
\* trip; Register makes one when it answers 400 and two when it succeeds.
C9_RoundTripsBounded ==
  /\ resp.route # "register" => resp.trips <= 1
  /\ resp.route = "register" => resp.trips = (IF resp.status = 400 THEN 1 ELSE 2)

\* a successful registration, answered after findOne and save
C9_Witness ==
  /\ resp.route = "register"
  /\ resp.status = 302
  /\ resp.trips = 2

\* ---------------------------------------------------------------- C10
\* C10: Create with absent, empty or non-string text answers 400 and inserts
\* nothing, and every stored post's text is a non-empty string.
C10_PostTextNonEmpty ==
  /\ [](\A p \in posts : p.text # "")
  /\ [][\A s \in Sessions, text \in CreateTexts :
          (FreshLogin(s) /\ CreatePost(s, text) /\ (text.kind # "string" \/ text.str = ""))
          => resp'.status = 400 /\ posts' = posts]_vars

====
